---- MODULE Spec2Model ----
(***************************************************************************)
(* A model of build.py (T2-Press): the rendering of Notion blocks to HTML  *)
(* and the build loop of notion_pull.  Python strings are TLA+ strings,    *)
(* taken apart with Len and SubSeq and put together with \o.               *)
(***************************************************************************)
EXTENDS Integers, Sequences, FiniteSets, TLC

VARIABLES
    pc,          \* position of the program
    texts,       \* render_rich_text: the rich_text list given
    result,      \* render_rich_text: the string returned
    plain_text,  \* notion_pull: the summary fallback's tag-stripped text
    url,         \* convert_embed_url: the URL given
    embed_url,   \* convert_embed_url: the URL returned
    block,       \* render_block_html: the block given
    html,        \* render_block_html: the string returned
    notion,      \* the Notion workspace: block or page id -> its child blocks
    outage,      \* the ids whose notion.blocks.children.list call fails
    log,         \* what logger.info was given, in order
    calls,       \* the ids notion.blocks.children.list was called with, in order
    raised,      \* an exception is propagating
    pages,       \* notion_pull: response["results"]
    page_ix,     \* notion_pull: position of `page` in pages
    blocks,      \* notion_pull: the blocks of the page
    block_ix,    \* notion_pull: position of `block` in blocks
    current_list_tag,
    html_blocks,
    files,       \* the output tree: path -> what was rendered into the file
    posts_info,
    served       \* serve() was called

richVars == <<texts, result, plain_text>>
embedVars == <<url, embed_url>>
blockVars == <<block, html>>
envVars == <<notion, outage>>
runVars == <<log, calls, raised>>
buildVars == <<pages, page_ix, blocks, block_ix, current_list_tag, html_blocks, files, posts_info, served>>
vars == <<pc, richVars, embedVars, blockVars, envVars, runVars, buildVars>>

(***************************************************************************)
(* Bounds of the model.                                                    *)
(***************************************************************************)
MaxSpans == 2
MaxChildren == 2
MaxBlocks == 5
MaxPages == 2

(***************************************************************************)
(* Python's str operations, as the code uses them.                         *)
(***************************************************************************)
StartsWithAt(s, sub, i) ==
    /\ i >= 1
    /\ i + Len(sub) - 1 <= Len(s)
    /\ SubSeq(s, i, i + Len(sub) - 1) = sub

\* `sub in s`
Contains(s, sub) == \E i \in 1..Len(s) : StartsWithAt(s, sub, i)

\* s.startswith(sub)
StartsWith(s, sub) == StartsWithAt(s, sub, 1)

\* s.find(sub) + 1: the first position at or after i where sub starts, 0 if none
Find(s, sub, i) ==
    LET hits == {j \in i..Len(s) : StartsWithAt(s, sub, j)}
    IN  IF hits = {} THEN 0 ELSE CHOOSE j \in hits : \A k \in hits : j <= k

\* s.split(sep)
RECURSIVE Split(_, _)
Split(s, sep) ==
    LET j == Find(s, sep, 1)
    IN  IF j = 0 THEN <<s>>
        ELSE <<SubSeq(s, 1, j - 1)>> \o Split(SubSeq(s, j + Len(sep), Len(s)), sep)

\* "".join(parts)
RECURSIVE Join(_)
Join(parts) ==
    IF parts = <<>> THEN "" ELSE Head(parts) \o Join(Tail(parts))

\* sep.join(parts)
RECURSIVE JoinWith(_, _)
JoinWith(sep, parts) ==
    IF parts = <<>> THEN ""
    ELSE IF Len(parts) = 1 THEN Head(parts)
    ELSE Head(parts) \o sep \o JoinWith(sep, Tail(parts))

\* re.sub(r"<.*?>", "", s): from the left, a "<" and everything up to the next
\* ">" is deleted, unless a newline lies between them ("." matches no newline)
RECURSIVE StripTagsFrom(_, _)
StripTagsFrom(s, i) ==
    IF i > Len(s) THEN ""
    ELSE IF SubSeq(s, i, i) = "<"
         THEN LET j == Find(s, ">", i + 1)
                  n == Find(s, "\n", i + 1)
              IN  IF j # 0 /\ (n = 0 \/ n > j)
                  THEN StripTagsFrom(s, j + 1)
                  ELSE "<" \o StripTagsFrom(s, i + 1)
         ELSE SubSeq(s, i, i) \o StripTagsFrom(s, i + 1)

StripTags(s) == StripTagsFrom(s, 1)

(***************************************************************************)
(* render_rich_text                                                        *)
(***************************************************************************)
\* t.get("annotations", {}) with every flag read by ann.get(...)
NoAnn == [code |-> FALSE, bold |-> FALSE, italic |-> FALSE,
          strikethrough |-> FALSE, underline |-> FALSE]

\* one element of a rich_text list; href "" stands for None (both are falsy)
Span(txt, ann, href) == [plain_text |-> txt, annotations |-> ann, href |-> href]

Plain(txt) == Span(txt, NoAnn, "")

\* a mutation of styled_span: <em> applied before <strong>
styled_span_swapped(t) ==
    LET ann == t.annotations
        t1 == IF ann.code THEN "<code>" \o t.plain_text \o "</code>" ELSE t.plain_text
        t2 == IF ann.italic THEN "<em>" \o t1 \o "</em>" ELSE t1
        t3 == IF ann.bold THEN "<strong>" \o t2 \o "</strong>" ELSE t2
        t4 == IF ann.strikethrough THEN "<del>" \o t3 \o "</del>" ELSE t3
        t5 == IF ann.underline THEN "<u>" \o t4 \o "</u>" ELSE t4
    IN  IF t.href # "" THEN "<a href=\"" \o t.href \o "\">" \o t5 \o "</a>" ELSE t5

\* the body of the loop of render_rich_text: txt after the six ifs
styled_span(t) ==
    LET ann == t.annotations
        t1 == IF ann.code THEN "<code>" \o t.plain_text \o "</code>" ELSE t.plain_text
        t2 == IF ann.bold THEN "<strong>" \o t1 \o "</strong>" ELSE t1
        t3 == IF ann.italic THEN "<em>" \o t2 \o "</em>" ELSE t2
        t4 == IF ann.strikethrough THEN "<del>" \o t3 \o "</del>" ELSE t3
        t5 == IF ann.underline THEN "<u>" \o t4 \o "</u>" ELSE t4
    IN  IF t.href # "" THEN "<a href=\"" \o t.href \o "\">" \o t5 \o "</a>" ELSE t5

RECURSIVE render_rich_text(_)
render_rich_text(ts) ==
    IF ts = <<>> THEN "" ELSE styled_span(Head(ts)) \o render_rich_text(Tail(ts))

(***************************************************************************)
(* The rich-text specification: a rich_text list is drawn, composed by     *)
(* render_rich_text and, as the summary fallback does, stripped of tags.   *)
(***************************************************************************)
AnnSets == [code : BOOLEAN, bold : BOOLEAN, italic : BOOLEAN,
            strikethrough : BOOLEAN, underline : BOOLEAN]

SpanTexts == {"a", "x<y>z"}
Hrefs == {"", "H"}

\* the first span carries any subset of the annotations, the following ones a
\* few of them
FirstSpans == {Span(tx, an, h) : tx \in SpanTexts, an \in AnnSets, h \in Hrefs}
MoreSpans ==
    {Span(tx, an, h) : tx \in {"b", "1<2"},
                       an \in {NoAnn, [NoAnn EXCEPT !.bold = TRUE, !.italic = TRUE]},
                       h \in Hrefs}

RECURSIVE SeqsUpTo(_, _)
SeqsUpTo(S, n) ==
    IF n = 0 THEN {<<>>}
    ELSE LET shorter == SeqsUpTo(S, n - 1)
         IN  shorter \cup {Append(q, x) : q \in {r \in shorter : Len(r) = n - 1}, x \in S}

SpanSeqs ==
    {<<>>} \cup {<<f>> \o more : f \in FirstSpans, more \in SeqsUpTo(MoreSpans, MaxSpans - 1)}

IdleRich == texts = <<>> /\ result = "" /\ plain_text = ""
IdleEmbed == url = "" /\ embed_url = ""
IdleBlock == block = "None" /\ html = ""
IdleEnv == notion = <<>> /\ outage = {}
IdleRun == log = <<>> /\ calls = <<>> /\ raised = FALSE
IdleBuild ==
    /\ pages = <<>> /\ page_ix = 0 /\ blocks = <<>> /\ block_ix = 0
    /\ current_list_tag = "None" /\ html_blocks = <<>>
    /\ files = <<>> /\ posts_info = <<>> /\ served = FALSE

InitRich ==
    /\ pc = "rich_text"
    /\ texts \in SpanSeqs
    /\ result = ""
    /\ plain_text = ""
    /\ IdleEmbed /\ IdleBlock /\ IdleEnv /\ IdleRun /\ IdleBuild

\* render_rich_text(texts)
RenderRichText ==
    /\ pc = "rich_text"
    /\ result' = render_rich_text(texts)
    /\ pc' = "rich_rendered"
    /\ UNCHANGED <<texts, plain_text, embedVars, blockVars, envVars, runVars, buildVars>>

\* plain_text = re.sub(r"<.*?>", "", raw_html)
StripSummary ==
    /\ pc = "rich_rendered"
    /\ plain_text' = StripTags(result)
    /\ pc' = "rich_stripped"
    /\ UNCHANGED <<texts, result, embedVars, blockVars, envVars, runVars, buildVars>>

NextRich == RenderRichText \/ StripSummary

SpecRich == InitRich /\ [][NextRich]_vars

(***************************************************************************)
(* Claims about render_rich_text.                                          *)
(***************************************************************************)
\* the tags of one span, outermost first, as the fixed nesting order gives them
OpenTags(t) ==
    (IF t.href # "" THEN "<a href=\"" \o t.href \o "\">" ELSE "")
    \o (IF t.annotations.underline THEN "<u>" ELSE "")
    \o (IF t.annotations.strikethrough THEN "<del>" ELSE "")
    \o (IF t.annotations.italic THEN "<em>" ELSE "")
    \o (IF t.annotations.bold THEN "<strong>" ELSE "")
    \o (IF t.annotations.code THEN "<code>" ELSE "")

CloseTags(t) ==
    (IF t.annotations.code THEN "</code>" ELSE "")
    \o (IF t.annotations.bold THEN "</strong>" ELSE "")
    \o (IF t.annotations.italic THEN "</em>" ELSE "")
    \o (IF t.annotations.strikethrough THEN "</del>" ELSE "")
    \o (IF t.annotations.underline THEN "</u>" ELSE "")
    \o (IF t.href # "" THEN "</a>" ELSE "")

NestedSpans(ts) == Join([n \in 1..Len(ts) |-> OpenTags(ts[n]) \o ts[n].plain_text \o CloseTags(ts[n])])

PlainTexts(ts) == Join([n \in 1..Len(ts) |-> ts[n].plain_text])

BoldItalicLink(t) ==
    /\ t.annotations = [NoAnn EXCEPT !.bold = TRUE, !.italic = TRUE]
    /\ t.href # ""

\* C7: render_rich_text returns the spans' styled texts concatenated in input
\* order, each span's tags nested in the fixed order <code> innermost, then
\* <strong>, <em>, <del>, <u>, and <a href> outermost, a tag being there exactly
\* when its flag or href is set; a bold italic link renders as
\* <a href="H"><em><strong>TEXT</strong></em></a>; no span gives "".
C7_FixedNesting ==
    pc # "rich_text" =>
        /\ result = NestedSpans(texts)
        /\ (texts = <<>> => result = "")
        /\ (Len(texts) = 1 /\ BoldItalicLink(texts[1]) =>
                result = "<a href=\"" \o texts[1].href \o "\"><em><strong>"
                         \o texts[1].plain_text \o "</strong></em></a>")

C7_Witness ==
    /\ pc = "rich_rendered"
    /\ Len(texts) = 2
    /\ texts[1].annotations = [NoAnn EXCEPT !.code = TRUE, !.bold = TRUE, !.italic = TRUE]
    /\ BoldItalicLink(texts[2])

\* C9: stripping the tags from the composed rich text gives back the spans'
\* plain_text fields concatenated in input order.
C9_StripRecoversPlainText ==
    pc = "rich_stripped" => plain_text = PlainTexts(texts)

(***************************************************************************)
(* convert_embed_url                                                       *)
(***************************************************************************)
Last(q) == q[Len(q)]

convert_embed_url(u) ==
    IF Contains(u, "youtu.be")
    THEN "https://www.youtube.com/embed/" \o Last(Split(u, "/"))
    ELSE IF Contains(u, "youtube.com/watch?v=")
    THEN "https://www.youtube.com/embed/" \o Head(Split(Last(Split(u, "v=")), "&"))
    ELSE IF Contains(u, "nicovideo.jp/watch/")
    THEN "https://embed.nicovideo.jp/watch/" \o Last(Split(u, "/"))
    ELSE u

UrlBases == {"https://youtu.be/", "https://www.youtube.com/watch?v=",
             "https://m.youtube.com/watch?t=5&v=", "https://www.nicovideo.jp/watch/",
             "https://example.com/video/", "https://vimeo.com/"}
UrlIds == {"abc123", "XYZ", "sm999"}
UrlTails == {"", "&t=5", "?from=1", "&rev=1", "&list=PLv=1", "/"}

Urls == {b \o n \o t : b \in UrlBases, n \in UrlIds, t \in UrlTails}

InitEmbed ==
    /\ pc = "embed"
    /\ url \in Urls
    /\ embed_url = ""
    /\ IdleRich /\ IdleBlock /\ IdleEnv /\ IdleRun /\ IdleBuild

\* embed_url = convert_embed_url(url)
ConvertEmbedUrl ==
    /\ pc = "embed"
    /\ embed_url' = convert_embed_url(url)
    /\ pc' = "embed_done"
    /\ UNCHANGED <<url, richVars, blockVars, envVars, runVars, buildVars>>

NextEmbed == ConvertEmbedUrl

SpecEmbed == InitEmbed /\ [][NextEmbed]_vars

\* the value of the query parameter v of a watch URL: what follows the first
\* "watch?v=" up to the next "&" or the end
WatchParam(u) ==
    LET at == Find(u, "watch?v=", 1) + Len("watch?v=")
        rest == SubSeq(u, at, Len(u))
        amp == Find(rest, "&", 1)
    IN  IF amp = 0 THEN rest ELSE SubSeq(rest, 1, amp - 1)

\* C8: a URL that is no short link and holds youtube.com/watch?v= becomes
\* https://www.youtube.com/embed/ followed by the value of v (the characters
\* after watch?v= up to the next & or the end); a URL matching none of the
\* three patterns is returned unchanged.
C8_WatchParam ==
    pc = "embed_done" =>
        /\ (~Contains(url, "youtu.be") /\ Contains(url, "youtube.com/watch?v=") =>
                embed_url = "https://www.youtube.com/embed/" \o WatchParam(url))
        /\ (~(\/ Contains(url, "youtu.be")
              \/ Contains(url, "youtube.com/watch?v=")
              \/ Contains(url, "nicovideo.jp/watch/")) => embed_url = url)

(***************************************************************************)
(* More of Python's str, for the block renderer and to_slug.               *)
(***************************************************************************)
UpperCase == "ABCDEFGHIJKLMNOPQRSTUVWXYZ"
LowerCase == "abcdefghijklmnopqrstuvwxyz"
Digits == "0123456789"

CharIn(c, alphabet) == \E n \in 1..Len(alphabet) : SubSeq(alphabet, n, n) = c

LowerChar(c) ==
    IF CharIn(c, UpperCase)
    THEN LET n == CHOOSE m \in 1..Len(UpperCase) : SubSeq(UpperCase, m, m) = c
         IN  SubSeq(LowerCase, n, n)
    ELSE c

\* s.lower()
RECURSIVE Lower(_)
Lower(s) ==
    IF Len(s) = 0 THEN "" ELSE LowerChar(SubSeq(s, 1, 1)) \o Lower(SubSeq(s, 2, Len(s)))

\* s.lstrip(chars), s.rstrip(chars), s.strip(chars)
RECURSIVE LStrip(_, _)
LStrip(s, chars) ==
    IF Len(s) > 0 /\ CharIn(SubSeq(s, 1, 1), chars)
    THEN LStrip(SubSeq(s, 2, Len(s)), chars) ELSE s

RECURSIVE RStrip(_, _)
RStrip(s, chars) ==
    IF Len(s) > 0 /\ CharIn(SubSeq(s, Len(s), Len(s)), chars)
    THEN RStrip(SubSeq(s, 1, Len(s) - 1), chars) ELSE s

StripChars(s, chars) == RStrip(LStrip(s, chars), chars)

\* s.strip()
Strip(s) == StripChars(s, " \n\t")

(***************************************************************************)
(* Blocks and the Notion client.                                           *)
(***************************************************************************)
\* a block as the API returns it: block["type"], block["id"],
\* block["has_children"] and the fields of block[btype] that the code reads
BaseBlock(id, btype) ==
    [id |-> id, type |-> btype, has_children |-> FALSE, rich_text |-> <<>>,
     language |-> "", checked |-> FALSE, url |-> "", external_url |-> "",
     file_url |-> "", caption |-> <<>>, cells |-> <<>>]

\* what a call ends with: a return value or an exception, the calls of
\* notion.blocks.children.list it made and what it logged
Ret(h, c, l) == [raised |-> FALSE, html |-> h, calls |-> c, log |-> l]
Raise(c, l) == [raised |-> TRUE, html |-> "", calls |-> c, log |-> l]

ListKinds == {"bulleted_list_item", "numbered_list_item"}

\* a mutation of list_tag: the nested list is always a <ul>
list_tag_always_ul(btype) == "ul"

\* tag = "ul" if btype == "bulleted_list_item" else "ol"
list_tag(btype) == IF btype = "bulleted_list_item" THEN "ul" ELSE "ol"

(***************************************************************************)
(* render_list_block                                                       *)
(***************************************************************************)
RECURSIVE render_list_block(_), render_children(_)

\* for child in children: html += render_list_block(child, notion)
render_children(children) ==
    IF children = <<>> THEN Ret("", <<>>, <<>>)
    ELSE LET first == render_list_block(Head(children))
         IN  IF first.raised THEN first
             ELSE LET rest == render_children(Tail(children))
                  IN  [raised |-> rest.raised,
                       html |-> IF rest.raised THEN "" ELSE first.html \o rest.html,
                       calls |-> first.calls \o rest.calls,
                       log |-> <<>>]

render_list_block(b) ==
    LET tag == list_tag(b.type)
        text == render_rich_text(b.rich_text)
        li == "<li>" \o text
    IN  IF ~b.has_children THEN Ret(li \o "</li>\n", <<>>, <<>>)
        ELSE IF b.id \in outage THEN Raise(<<b.id>>, <<>>)
        ELSE LET children == notion[b.id]
             IN  IF children = <<>> THEN Ret(li \o "</li>\n", <<b.id>>, <<>>)
                 ELSE LET inner == render_children(children)
                      IN  IF inner.raised THEN Raise(<<b.id>> \o inner.calls, <<>>)
                          ELSE Ret(li \o "\n<" \o tag \o ">" \o inner.html
                                      \o "</" \o tag \o ">" \o "</li>\n",
                                   <<b.id>> \o inner.calls, <<>>)

(***************************************************************************)
(* render_block_html                                                       *)
(***************************************************************************)
\* the names get_lexer_by_name knows, among those the model draws
KnownLexers == {"python", "text"}

RECURSIVE HtmlEscape(_)
HtmlEscape(s) ==
    IF Len(s) = 0 THEN ""
    ELSE LET c == SubSeq(s, 1, 1)
             e == IF c = "&" THEN "&amp;" ELSE IF c = "<" THEN "&lt;"
                  ELSE IF c = ">" THEN "&gt;" ELSE IF c = "\"" THEN "&quot;"
                  ELSE IF c = "'" THEN "&#39;" ELSE c
         IN  e \o HtmlEscape(SubSeq(s, 2, Len(s)))

\* highlight(code_text, lexer, HtmlFormatter(nowrap=True)): the escaped text,
\* which a lexer other than TextLexer wraps in token spans
highlight(code_text, lexer) ==
    IF lexer = "text" THEN HtmlEscape(code_text) \o "\n"
    ELSE "<span class=\"n\">" \o HtmlEscape(code_text) \o "</span>\n"

code_block(b) ==
    LET lang == Lower(Strip(b.language))
        code_text == Join([n \in 1..Len(b.rich_text) |-> b.rich_text[n].plain_text])
        known == lang = "" \/ lang \in KnownLexers
        lexer == IF lang # "" /\ known THEN lang ELSE "text"
    IN  Ret("<div class=\"code-block\"><pre>" \o highlight(code_text, lexer) \o "</pre></div>",
            <<>>,
            <<[event |-> "code_language", arg |-> lang]>>
            \o (IF known THEN <<>> ELSE <<[event |-> "lexer_fallback", arg |-> lang]>>))

table_cell(cell) ==
    LET raw == Strip(render_rich_text(cell))
    IN  IF StartsWith(raw, "corner::")
        THEN "\n    <th class=\"corner-cell\">\n    <svg class=\"corner-line\" xmlns=\"http://www.w3.org/2000/svg\" viewBox=\"0 0 100 100\" preserveAspectRatio=\"none\">\n        <line x1=\"0\" y1=\"0\" x2=\"100\" y2=\"100\" stroke=\"black\" stroke-width=\"2\"/>\n    </svg>\n    "
             \o SubSeq(raw, Find(raw, "::", 1) + 2, Len(raw)) \o "\n    </th>\n    "
        ELSE IF StartsWith(raw, "th::")
        THEN "<th>" \o SubSeq(raw, 5, Len(raw)) \o "</th>"
        ELSE "<td>" \o raw \o "</td>"

table_row(row) ==
    "<tr>" \o Join([n \in 1..Len(row.cells) |-> table_cell(row.cells[n])]) \o "</tr>"

table_block(b) ==
    IF b.id \in outage THEN Raise(<<b.id>>, <<>>)
    ELSE LET rows == notion[b.id]
         IN  Ret("<table>" \o Join([n \in 1..Len(rows) |-> table_row(rows[n])]) \o "</table>",
                 <<b.id>>, <<>>)

\* data.get("external", {}).get("url") or data.get("file", {}).get("url", "")
media_url(b) == IF b.external_url # "" THEN b.external_url ELSE b.file_url

\* the title attributes of the two iframes are Japanese words in the source
\* ("umekomi", "douga"); they are written here by their meaning in ASCII
video_block(b) ==
    LET src == media_url(b)
        embed == convert_embed_url(src)
    IN  IF Contains(embed, "youtube.com") \/ Contains(embed, "nicovideo.jp")
        THEN "<iframe src=\"" \o embed \o "\" title=\"video\" frameborder=\"0\" allowfullscreen loading=\"lazy\" style=\"width:100%;height:400px;\"></iframe>"
        ELSE "<video src=\"" \o src \o "\" controls style=\"max-width: 100%; height: auto;\"></video>"

image_block(b) ==
    LET caption == render_rich_text(b.caption)
    IN  "<figure><img src=\"" \o media_url(b) \o "\" alt=\"" \o caption
        \o "\" style=\"max-width:100%;\"/><figcaption>" \o caption \o "</figcaption></figure>"

render_block_html(b) ==
    LET btype == b.type
        text == render_rich_text(b.rich_text)
    IN  IF btype = "paragraph" THEN Ret("<p>" \o text \o "</p>", <<>>, <<>>)
        ELSE IF StartsWith(btype, "heading_")
        THEN LET level == SubSeq(btype, Len(btype), Len(btype))
             IN  Ret("<h" \o level \o ">" \o text \o "</h" \o level \o ">", <<>>, <<>>)
        ELSE IF btype = "quote" THEN Ret("<blockquote>" \o text \o "</blockquote>", <<>>, <<>>)
        ELSE IF btype = "code" THEN code_block(b)
        ELSE IF btype \in ListKinds THEN render_list_block(b)
        ELSE IF btype = "to_do"
        THEN Ret("<div class=\"checkbox\"><label><input type=\"checkbox\" disabled "
                 \o (IF b.checked THEN "checked" ELSE "") \o "> " \o text \o "</label></div>",
                 <<>>, <<>>)
        ELSE IF btype = "table" THEN table_block(b)
        ELSE IF btype = "embed"
        THEN Ret("<iframe src=\"" \o convert_embed_url(b.url)
                 \o "\" title=\"embed\" frameborder=\"0\" loading=\"lazy\" allowfullscreen style=\"width:100%;height:400px;\"></iframe>",
                 <<>>, <<>>)
        ELSE IF btype = "video" THEN Ret(video_block(b), <<>>, <<>>)
        ELSE IF btype = "divider" THEN Ret("<hr>", <<>>, <<>>)
        ELSE IF btype = "image" THEN Ret(image_block(b), <<>>, <<>>)
        ELSE Ret("<div>" \o text \o "</div>", <<>>,
                 <<[event |-> "unsupported_block_type", arg |-> btype]>>)

(***************************************************************************)
(* The block specification: one block is drawn, with the workspace that    *)
(* holds its children, and rendered by render_block_html.                  *)
(***************************************************************************)
ListBlock(id, btype, hc) ==
    [BaseBlock(id, btype) EXCEPT !.has_children = hc,
                                 !.rich_text = <<Plain("t" \o ToString(id))>>]

\* the children of a list item: their kinds, and the kinds of their own children
GrandKinds == {<<>>, <<"bulleted_list_item">>, <<"numbered_list_item">>,
               <<"numbered_list_item", "bulleted_list_item">>}
ChildShapes ==
    {sh \in [type : ListKinds \cup {"paragraph"}, has_children : BOOLEAN, kids : GrandKinds] :
        sh.kids # <<>> => sh.has_children}

ChildId(j) == 10 + j
GrandId(j, m) == 100 + 10 * j + m

ChildBlocks(cs) == [j \in 1..Len(cs) |-> ListBlock(ChildId(j), cs[j].type, cs[j].has_children)]
GrandBlocks(cs, j) == [m \in 1..Len(cs[j].kids) |-> ListBlock(GrandId(j, m), cs[j].kids[m], FALSE)]

\* the workspace of a list item with id 1 whose children have the shapes cs
TreeStore(cs) ==
    LET ids == {1} \cup {ChildId(j) : j \in 1..Len(cs)}
    IN  [id \in ids |-> IF id = 1 THEN ChildBlocks(cs)
                        ELSE GrandBlocks(cs, id - 10)]

RichTexts == {<<>>, <<Plain("t")>>, <<Span("t", [NoAnn EXCEPT !.bold = TRUE], "")>>}

SupportedKinds ==
    {"paragraph", "heading_1", "heading_2", "heading_3", "quote", "code",
     "bulleted_list_item", "numbered_list_item", "to_do", "table", "embed",
     "video", "divider", "image"}

OtherKinds == {"unsupported_future_type", "callout", "heading_4"}

TextBlocks ==
    {[BaseBlock(1, ty) EXCEPT !.rich_text = rt] :
        ty \in {"paragraph", "heading_1", "heading_2", "heading_3", "quote", "divider"}
               \cup OtherKinds,
        rt \in RichTexts}

PayloadBlocks ==
    {[BaseBlock(1, "code") EXCEPT !.rich_text = rt, !.language = la] :
        rt \in RichTexts, la \in {"", " Python ", "nolang"}}
    \cup {[BaseBlock(1, "to_do") EXCEPT !.rich_text = rt, !.checked = ch] :
        rt \in RichTexts, ch \in BOOLEAN}
    \cup {[BaseBlock(1, "embed") EXCEPT !.url = u] :
        u \in {"https://youtu.be/abc123", "https://example.com/video/XYZ"}}
    \cup {[BaseBlock(1, ty) EXCEPT !.external_url = e, !.file_url = f, !.caption = rt] :
        ty \in {"video", "image"}, rt \in RichTexts,
        e \in {"", "https://www.nicovideo.jp/watch/sm999"}, f \in {"", "https://example.com/f.mp4"}}
    \cup {[BaseBlock(1, "table") EXCEPT !.has_children = TRUE]}

RowBlock(id, cells) == [BaseBlock(id, "table_row") EXCEPT !.cells = cells]

\* the rows of the table with id 1
TableRows ==
    <<RowBlock(11, <<<<Plain("corner::x")>>, <<Plain("th::A")>>>>),
      RowBlock(12, <<<<Plain("th::r")>>, <<Plain(" 1 ")>>>>)>>

InitBlock ==
    /\ pc = "block"
    /\ \/ \E rt \in ListKinds, hc \in BOOLEAN, cs \in SeqsUpTo(ChildShapes, MaxChildren) :
            /\ cs # <<>> => hc
            /\ block = ListBlock(1, rt, hc)
            /\ notion = TreeStore(cs)
            /\ outage \in {{}, {1}, {ChildId(1)}}
       \/ /\ block \in TextBlocks \cup PayloadBlocks
          /\ notion = [id \in {1} |-> TableRows]
          /\ outage \in {{}, {1}}
    /\ html = ""
    /\ IdleRich /\ IdleEmbed /\ IdleRun /\ IdleBuild

\* html = render_block_html(block, notion)
RenderBlockHtml ==
    /\ pc = "block"
    /\ LET r == render_block_html(block)
       IN  /\ html' = r.html
           /\ raised' = r.raised
           /\ calls' = calls \o r.calls
           /\ log' = log \o r.log
           /\ pc' = IF r.raised THEN "block_raised" ELSE "block_done"
    /\ UNCHANGED <<block, richVars, embedVars, envVars, buildVars>>

NextBlock == RenderBlockHtml

SpecBlock == InitBlock /\ [][NextBlock]_vars

(***************************************************************************)
(* Reading HTML back: the tags and texts of a string, and their nesting.   *)
(***************************************************************************)
\* the string cut into tags ("<" up to the next ">") and the texts between them
RECURSIVE Tokens(_)
Tokens(s) ==
    IF Len(s) = 0 THEN <<>>
    ELSE IF SubSeq(s, 1, 1) = "<" /\ Find(s, ">", 1) # 0
    THEN LET e == Find(s, ">", 1)
         IN  <<SubSeq(s, 1, e)>> \o Tokens(SubSeq(s, e + 1, Len(s)))
    ELSE LET o == Find(s, "<", 2)
         IN  IF o = 0 THEN <<s>>
             ELSE <<SubSeq(s, 1, o - 1)>> \o Tokens(SubSeq(s, o, Len(s)))

IsClose(t) == StartsWith(t, "</")
IsOpen(t) == StartsWith(t, "<") /\ ~IsClose(t)
CloseOf(t) == "</" \o SubSeq(t, 2, Len(t))

\* every closing tag closes the innermost open element, and none stays open
RECURSIVE WellNestedFrom(_, _, _)
WellNestedFrom(toks, n, stack) ==
    IF n > Len(toks) THEN stack = <<>>
    ELSE IF IsClose(toks[n])
    THEN /\ stack # <<>>
         /\ CloseOf(stack[Len(stack)]) = toks[n]
         /\ WellNestedFrom(toks, n + 1, SubSeq(stack, 1, Len(stack) - 1))
    ELSE IF IsOpen(toks[n]) THEN WellNestedFrom(toks, n + 1, Append(stack, toks[n]))
    ELSE WellNestedFrom(toks, n + 1, stack)

WellNested(toks) == WellNestedFrom(toks, 1, <<>>)

\* the opening tags that lie inside exactly d elements, in order
RECURSIVE OpensFrom(_, _, _, _)
OpensFrom(toks, n, depth, d) ==
    IF n > Len(toks) THEN <<>>
    ELSE IF IsClose(toks[n]) THEN OpensFrom(toks, n + 1, depth - 1, d)
    ELSE IF IsOpen(toks[n])
    THEN (IF depth = d THEN <<toks[n]>> ELSE <<>>) \o OpensFrom(toks, n + 1, depth + 1, d)
    ELSE OpensFrom(toks, n + 1, depth, d)

OpensAt(toks, d) == OpensFrom(toks, 1, 0, d)

\* what follows each of those opening tags
RECURSIVE FollowersFrom(_, _, _, _)
FollowersFrom(toks, n, depth, d) ==
    IF n >= Len(toks) THEN <<>>
    ELSE IF IsClose(toks[n]) THEN FollowersFrom(toks, n + 1, depth - 1, d)
    ELSE IF IsOpen(toks[n])
    THEN (IF depth = d THEN <<toks[n + 1]>> ELSE <<>>) \o FollowersFrom(toks, n + 1, depth + 1, d)
    ELSE FollowersFrom(toks, n + 1, depth, d)

FollowersAt(toks, d) == FollowersFrom(toks, 1, 0, d)

(***************************************************************************)
(* Claims about render_list_block and render_block_html.                   *)
(***************************************************************************)
FamilyOpen(btype) == IF btype = "bulleted_list_item" THEN "<ul>" ELSE "<ol>"
FamilyClose(btype) == IF btype = "bulleted_list_item" THEN "</ul>" ELSE "</ol>"

\* the children the item's fetch returns, when it is made
FetchedChildren == IF block.has_children THEN notion[block.id] ELSE <<>>

\* C3: render_list_block returns exactly one <li> element that starts with the
\* item's composed rich text; it holds a nested list if and only if the block
\* has has_children set and the fetched child list is not empty, and then
\* exactly one, of the item's own family, after the text and closed right
\* before the closing </li>, with one <li> per child in fetch order.
C3_OneListItem ==
    (pc = "block_done" /\ block.type \in ListKinds) =>
        LET toks == Tokens(html)
            text == render_rich_text(block.rich_text)
            nested == FetchedChildren # <<>>
            inside == IF nested THEN FetchedChildren ELSE <<>>
        IN  /\ WellNested(toks)
            /\ OpensAt(toks, 0) = <<"<li>">>
            /\ toks[1] = "<li>"
            /\ toks[2] = IF nested THEN text \o "\n" ELSE text
            /\ toks[Len(toks) - 1] = "</li>"
            /\ toks[Len(toks)] = "\n"
            /\ OpensAt(toks, 1) = IF nested THEN <<FamilyOpen(block.type)>> ELSE <<>>
            /\ nested => /\ toks[3] = FamilyOpen(block.type)
                         /\ toks[Len(toks) - 2] = FamilyClose(block.type)
            /\ OpensAt(toks, 2) = [j \in 1..Len(inside) |-> "<li>"]
            /\ Len(FollowersAt(toks, 2)) = Len(inside)
            /\ \A j \in 1..Len(inside) :
                   StartsWith(FollowersAt(toks, 2)[j], render_rich_text(inside[j].rich_text))

C3_Witness ==
    /\ pc = "block_done"
    /\ block.type = "numbered_list_item"
    /\ Len(notion[1]) = 2
    /\ notion[1][1].type = "numbered_list_item"
    /\ notion[1][2].type = "bulleted_list_item"
    /\ notion[ChildId(2)] # <<>>

\* the elements the sibling-sequence grouping puts around a sequence of kinds:
\* one list per maximal run of a family, a <p> per paragraph
RECURSIVE SiblingElements(_, _)
SiblingElements(kinds, open) ==
    IF kinds = <<>> THEN <<>>
    ELSE IF Head(kinds) \in ListKinds
    THEN (IF FamilyOpen(Head(kinds)) = open THEN <<>> ELSE <<FamilyOpen(Head(kinds))>>)
         \o SiblingElements(Tail(kinds), FamilyOpen(Head(kinds)))
    ELSE <<"<p>">> \o SiblingElements(Tail(kinds), "None")

\* C4: the children of a list item are grouped as a page's top-level blocks
\* are: each maximal run of list-item children of one family is wrapped in one
\* list of the children's family, and a child that is no list item is rendered
\* as a standalone block outside any list.
C4_ChildrenGrouped ==
    (pc = "block_done" /\ block.type \in ListKinds /\ FetchedChildren # <<>>) =>
        OpensAt(Tokens(html), 1) =
            SiblingElements([j \in 1..Len(FetchedChildren) |-> FetchedChildren[j].type], "None")

\* C5: for a block of a kind that is not supported, render_block_html does not
\* raise, returns a <div> around the composed rich text and logs the kind.
C5_FallbackDiv ==
    (pc \in {"block_done", "block_raised"} /\ block.type \notin SupportedKinds) =>
        /\ ~raised
        /\ html = "<div>" \o render_rich_text(block.rich_text) \o "</div>"
        /\ \E n \in 1..Len(log) : log[n] = [event |-> "unsupported_block_type", arg |-> block.type]

(***************************************************************************)
(* to_slug                                                                 *)
(***************************************************************************)
\* the title of a page without one: two kanji in the source, written here by
\* a stand-in, strings of the model being ASCII
Untitled == "[untitled]"

\* kakasi_inst.convert(text), its "hepburn" parts joined: the stand-in of the
\* kanji title becomes its reading, Latin text is left as it is
hepburn(text) == IF text = Untitled THEN "mudai" ELSE text

\* re.sub(r"[^a-zA-Z0-9]+", "-", s)
RECURSIVE DashRuns(_, _)
DashRuns(s, in_run) ==
    IF Len(s) = 0 THEN ""
    ELSE IF CharIn(SubSeq(s, 1, 1), LowerCase \o UpperCase \o Digits)
    THEN SubSeq(s, 1, 1) \o DashRuns(SubSeq(s, 2, Len(s)), FALSE)
    ELSE (IF in_run THEN "" ELSE "-") \o DashRuns(SubSeq(s, 2, Len(s)), TRUE)

to_slug(text) ==
    LET slug == StripChars(DashRuns(Lower(hepburn(text)), FALSE), "-")
    IN  IF slug = "" THEN "post" ELSE slug

(***************************************************************************)
(* notion_pull and the main program                                        *)
(***************************************************************************)
SummaryLimit == 300
DatabaseId == 0
IndexPath == "index.html"

\* title_data[0]["plain_text"] if title_data else the default title
page_title(page) ==
    IF page.title_data # <<>> THEN page.title_data[1].plain_text ELSE Untitled

post_url(page) == "posts/" \o to_slug(page_title(page)) \o "/index.html"

\* a mutation of open_list: the open list is not closed when the family changes
open_list_unclosed(cur, tag) ==
    IF cur # tag THEN <<"<" \o tag \o ">">> ELSE <<>>

\* a mutation of open_list: a list is opened for every item
open_list_each(cur, tag) ==
    (IF cur # "None" THEN <<"</" \o cur \o ">">> ELSE <<>>) \o <<"<" \o tag \o ">">>

\* lines 355-359: what the walk appends before a list item of family `tag`
open_list(cur, tag) ==
    IF cur # tag
    THEN (IF cur # "None" THEN <<"</" \o cur \o ">">> ELSE <<>>) \o <<"<" \o tag \o ">">>
    ELSE <<>>

\* lines 362-363 and 367-368: if current_list_tag: append its closing tag
close_list(cur) == IF cur # "None" THEN <<"</" \o cur \o ">">> ELSE <<>>

\* lines 373-383
page_summary(page, bs) ==
    IF page.summary # <<>> THEN render_rich_text(page.summary)
    ELSE LET paragraphs == {n \in 1..Len(bs) : bs[n].type = "paragraph"}
             stripped ==
                 IF paragraphs = {} THEN ""
                 ELSE LET n == CHOOSE m \in paragraphs : \A o \in paragraphs : m <= o
                      IN  StripTags(render_rich_text(bs[n].rich_text))
         IN  SubSeq(stripped, 1, IF Len(stripped) < SummaryLimit THEN Len(stripped) ELSE SummaryLimit)

\* lines 390-395: the date part of the ISO timestamp
date_str(page) ==
    IF page.created_time = "" THEN "" ELSE SubSeq(page.created_time, 1, 10)

WriteFile(fs, path, content) ==
    [f \in DOMAIN fs \cup {path} |-> IF f = path THEN content ELSE fs[f]]

\* lines 287-334: the output tree is emptied and the database is queried
QueryDatabase ==
    /\ pc = "start"
    /\ files' = <<>>
    /\ IF DatabaseId \in outage
       THEN /\ log' = Append(log, [event |-> "api_error", arg |-> "databases.query"])
            /\ raised' = TRUE
            /\ pc' = "raised"
            /\ UNCHANGED <<posts_info, page_ix>>
       ELSE /\ posts_info' = <<>>
            /\ page_ix' = 0
            /\ pc' = "next_page"
            /\ UNCHANGED <<log, raised>>
    /\ UNCHANGED <<pages, blocks, block_ix, current_list_tag, html_blocks, served, calls,
                   richVars, embedVars, blockVars, envVars>>

\* lines 336-349: the next page's title and slug, and the fetch of its blocks
FetchPage ==
    /\ pc = "next_page"
    /\ page_ix < Len(pages)
    /\ LET page == pages[page_ix + 1]
       IN  /\ log' = Append(log, [event |-> "post", arg |-> to_slug(page_title(page))])
           /\ calls' = Append(calls, page.id)
           /\ IF page.id \in outage
              THEN /\ raised' = TRUE
                   /\ pc' = "raised"
                   /\ UNCHANGED <<page_ix, blocks, block_ix, current_list_tag, html_blocks>>
              ELSE /\ page_ix' = page_ix + 1
                   /\ blocks' = notion[page.id]
                   /\ block_ix' = 0
                   /\ html_blocks' = <<>>
                   /\ current_list_tag' = "None"
                   /\ pc' = "walk"
                   /\ UNCHANGED raised
    /\ UNCHANGED <<pages, files, posts_info, served, richVars, embedVars, blockVars, envVars>>

\* lines 351-365: one turn of the loop over the page's blocks
WalkBlock ==
    /\ pc = "walk"
    /\ block_ix < Len(blocks)
    /\ LET b == blocks[block_ix + 1]
           tag == list_tag(b.type)
           before == IF b.type \in ListKinds THEN open_list(current_list_tag, tag)
                     ELSE close_list(current_list_tag)
           r == IF b.type \in ListKinds THEN render_list_block(b) ELSE render_block_html(b)
       IN  /\ current_list_tag' = IF b.type \in ListKinds THEN tag ELSE "None"
           /\ calls' = calls \o r.calls
           /\ log' = log \o r.log
           /\ raised' = r.raised
           /\ IF r.raised
              THEN /\ html_blocks' = html_blocks \o before
                   /\ pc' = "raised"
                   /\ UNCHANGED block_ix
              ELSE /\ html_blocks' = html_blocks \o before \o <<r.html>>
                   /\ block_ix' = block_ix + 1
                   /\ pc' = "walk"
    /\ UNCHANGED <<pages, page_ix, blocks, files, posts_info, served,
                   richVars, embedVars, blockVars, envVars>>

\* lines 367-418: the open list is closed, the post is rendered and written
FinishPage ==
    /\ pc = "walk"
    /\ block_ix = Len(blocks)
    /\ LET page == pages[page_ix]
           closed == html_blocks \o close_list(current_list_tag)
           post_data == [title |-> page_title(page),
                         content |-> JoinWith("\n", closed),
                         tags |-> page.tags,
                         date |-> date_str(page),
                         summary |-> page_summary(page, blocks),
                         url |-> post_url(page)]
       IN  /\ html_blocks' = closed
           /\ files' = WriteFile(files, post_url(page), post_data)
           /\ posts_info' = Append(posts_info,
                                   [title |-> post_data.title, url |-> post_data.url,
                                    date |-> post_data.date, summary |-> post_data.summary,
                                    tags |-> post_data.tags])
    /\ pc' = "next_page"
    /\ UNCHANGED <<pages, page_ix, blocks, block_ix, current_list_tag, served,
                   richVars, embedVars, blockVars, envVars, runVars>>

\* lines 420-424: the index page is rendered from posts_info and written
WriteIndex ==
    /\ pc = "next_page"
    /\ page_ix = Len(pages)
    /\ files' = WriteFile(files, IndexPath, [posts |-> posts_info])
    /\ log' = Append(log, [event |-> "done", arg |-> ""])
    /\ pc' = "built"
    /\ UNCHANGED <<pages, page_ix, blocks, block_ix, current_list_tag, html_blocks, posts_info,
                   served, calls, raised, richVars, embedVars, blockVars, envVars>>

\* a mutation of MainExit: the exception is swallowed and the site is served
MainExitThenServes ==
    /\ pc = "raised"
    /\ served' = TRUE
    /\ pc' = "serving"
    /\ UNCHANGED <<pages, page_ix, blocks, block_ix, current_list_tag, html_blocks, files,
                   posts_info, richVars, embedVars, blockVars, envVars, runVars>>

\* lines 471-475: an exception leaves notion_pull and the process exits, by
\* exit(1) or, for an exception the except clause does not name, by the traceback
MainExit ==
    /\ pc = "raised"
    /\ pc' = "exit"
    /\ UNCHANGED <<richVars, embedVars, blockVars, envVars, runVars, buildVars>>

\* line 477: serve()
MainServe ==
    /\ pc = "built"
    /\ served' = TRUE
    /\ pc' = "serving"
    /\ UNCHANGED <<pages, page_ix, blocks, block_ix, current_list_tag, html_blocks, files,
                   posts_info, richVars, embedVars, blockVars, envVars, runVars>>

Next ==
    \/ QueryDatabase
    \/ FetchPage
    \/ WalkBlock
    \/ FinishPage
    \/ WriteIndex
    \/ MainExit
    \/ MainServe

(***************************************************************************)
(* The build specification: the published pages and the workspace are      *)
(* drawn, then the program runs.  Either one page holds any sequence of    *)
(* up to MaxBlocks blocks, or up to MaxPages pages hold one of a few       *)
(* bodies each.                                                            *)
(***************************************************************************)
TopId(p, j) == 100 * p + j

\* the kinds of top-level block of the one-page workspaces
TopShapes ==
    {[type |-> "bulleted_list_item", has_children |-> FALSE],
     [type |-> "numbered_list_item", has_children |-> FALSE],
     [type |-> "paragraph", has_children |-> FALSE],
     [type |-> "numbered_list_item", has_children |-> TRUE]}

\* the bodies of the pages of the many-page workspaces
SmallBodies ==
    {<<>>,
     <<[type |-> "paragraph", has_children |-> FALSE], [type |-> "table", has_children |-> TRUE]>>,
     <<[type |-> "bulleted_list_item", has_children |-> TRUE],
       [type |-> "bulleted_list_item", has_children |-> FALSE]>>}

Body(p, shapes) ==
    [j \in 1..Len(shapes) |-> ListBlock(TopId(p, j), shapes[j].type, shapes[j].has_children)]

\* the children of a top-level block: the rows of a table, the one child of a
\* list item
ChildrenOfTop(b) ==
    IF b.type = "table"
    THEN <<RowBlock(10 * b.id + 1, <<<<Plain("th::A")>>, <<Plain("1")>>>>)>>
    ELSE <<ListBlock(10 * b.id + 1, "bulleted_list_item", FALSE)>>

PageProps ==
    {[title_data |-> <<>>, summary |-> <<>>],
     [title_data |-> <<Plain("My Post")>>, summary |-> <<>>],
     [title_data |-> <<Plain("my post!")>>, summary |-> <<Span("about", [NoAnn EXCEPT !.italic = TRUE], "")>>]}

Page(p, props) ==
    [id |-> p, title_data |-> props.title_data, summary |-> props.summary,
     tags |-> <<"notes">>, created_time |-> "2024-05-06T07:08:09.000Z"]

\* the workspace in which page p has the body bodies[p]
Store(bodies) ==
    LET parents == UNION {{bodies[p][j] : j \in {m \in 1..Len(bodies[p]) : bodies[p][m].has_children}} :
                          p \in 1..Len(bodies)}
    IN  [id \in (1..Len(bodies)) \cup {b.id : b \in parents} |->
            IF id \in 1..Len(bodies) THEN bodies[id]
            ELSE ChildrenOfTop(CHOOSE b \in parents : b.id = id)]

InitBuild ==
    /\ pc = "start"
    /\ \E props \in SeqsUpTo(PageProps, MaxPages) :
       \E shapes \in [1..Len(props) -> IF Len(props) = 1 THEN SeqsUpTo(TopShapes, MaxBlocks)
                                       ELSE SmallBodies] :
           /\ pages = [p \in 1..Len(props) |-> Page(p, props[p])]
           /\ notion = Store([p \in 1..Len(props) |-> Body(p, shapes[p])])
    /\ outage \in {{}} \cup {{id} : id \in DOMAIN notion \cup {DatabaseId}}
    /\ page_ix = 0 /\ blocks = <<>> /\ block_ix = 0
    /\ current_list_tag = "None" /\ html_blocks = <<>>
    /\ files = <<>> /\ posts_info = <<>> /\ served = FALSE
    /\ IdleRich /\ IdleEmbed /\ IdleBlock /\ IdleRun

Spec == InitBuild /\ [][Next]_vars

(***************************************************************************)
(* Claims about the sibling-sequence grouper and the build.                *)
(***************************************************************************)
IsWrapper(entry) == entry \in {"<ul>", "<ol>", "</ul>", "</ol>"}

\* the list left open by a sequence of wrapper tags ("None" when there is
\* none), or "bad" when a list is opened inside an open one or a closing tag
\* does not close the open list
RECURSIVE OpenAfter(_, _)
OpenAfter(tags, open) ==
    IF tags = <<>> THEN open
    ELSE IF IsClose(Head(tags))
    THEN IF open # "None" /\ Head(tags) = "</" \o open \o ">"
         THEN OpenAfter(Tail(tags), "None") ELSE "bad"
    ELSE IF open = "None"
         THEN OpenAfter(Tail(tags), SubSeq(Head(tags), 2, 3)) ELSE "bad"

OpenList == OpenAfter(SelectSeq(html_blocks, IsWrapper), "None")

\* C1: the wrapper tags appended to html_blocks are well-formed: a list is
\* opened only when none is open, a closing tag closes the open list, the list
\* open during the walk is the one current_list_tag names, and once the walk
\* of a page is finished no list is open.
C1_WrappersWellFormed ==
    /\ OpenList # "bad"
    /\ pc = "walk" => OpenList = current_list_tag
    /\ pc \in {"next_page", "built", "serving"} => OpenList = "None"

C1_Witness ==
    /\ pc = "next_page"
    /\ Len(blocks) >= 4
    /\ blocks[1].type = "bulleted_list_item"
    /\ blocks[2].type = "numbered_list_item"
    /\ blocks[3].type = "paragraph"
    /\ blocks[Len(blocks)].type = "numbered_list_item"
    /\ html_blocks # <<>>

\* how many blocks of the kind btype the sequence bs starts with
RECURSIVE RunLength(_, _)
RunLength(bs, btype) ==
    IF bs # <<>> /\ Head(bs).type = btype THEN 1 + RunLength(Tail(bs), btype) ELSE 0

\* the output the claim describes: the blocks cut into maximal runs, a run of
\* list items being one list element around its items, any other block itself
RECURSIVE GroupedRuns(_)
GroupedRuns(bs) ==
    IF bs = <<>> THEN <<>>
    ELSE IF Head(bs).type \in ListKinds
    THEN LET n == RunLength(bs, Head(bs).type)
         IN  <<FamilyOpen(Head(bs).type)>>
             \o [j \in 1..n |-> render_list_block(bs[j]).html]
             \o <<FamilyClose(Head(bs).type)>>
             \o GroupedRuns(SubSeq(bs, n + 1, Len(bs)))
    ELSE <<render_block_html(Head(bs)).html>> \o GroupedRuns(Tail(bs))

Kinds(bs) == [j \in 1..Len(bs) |-> bs[j].type]

FirstFour(entries) == [j \in 1..Len(entries) |-> SubSeq(entries[j], 1, 4)]

\* the page that was walked last has been rendered completely
PageRendered == pc \in {"next_page", "built", "serving"} /\ page_ix > 0

\* C2: every maximal run of consecutive list items of one family is wrapped in
\* exactly one list element of that family holding the run's items in input
\* order, and every other block is rendered outside any wrapper; the blocks
\* bulleted, bulleted, numbered, paragraph, bulleted give one <ul> of two
\* items, one <ol> of one item, one <p> and one <ul> of one item.
C2_RunsWrappedOnce ==
    PageRendered =>
        /\ html_blocks = GroupedRuns(blocks)
        /\ (Kinds(blocks) = <<"bulleted_list_item", "bulleted_list_item", "numbered_list_item",
                              "paragraph", "bulleted_list_item">> =>
               FirstFour(html_blocks) = <<"<ul>", "<li>", "<li>", "</ul", "<ol>", "<li>", "</ol",
                                          "<p>t", "<ul>", "<li>", "</ul">>)

C2_Witness ==
    /\ PageRendered
    /\ Kinds(blocks) = <<"bulleted_list_item", "bulleted_list_item", "numbered_list_item",
                         "paragraph", "bulleted_list_item">>
    /\ Len(html_blocks) = 11

FailedCalls == {n \in 1..Len(calls) : calls[n] \in outage}

\* C6: when a call of notion.blocks.children.list fails, the exception ends the
\* run: the failed call is the last one and is made once, no file is written
\* afterwards, index.html is never written and serve() is never called.
C6_FetchFailureAborts ==
    /\ [](FailedCalls # {} =>
            /\ raised
            /\ pc \in {"raised", "exit"}
            /\ FailedCalls = {Len(calls)}
            /\ IndexPath \notin DOMAIN files
            /\ ~served)
    /\ [][FailedCalls # {} => (files' = files /\ calls' = calls /\ ~served')]_vars

C6_Witness ==
    /\ pc = "exit"
    /\ Len(pages) = 2
    /\ Len(calls) = 3
    /\ FailedCalls = {3}
    /\ DOMAIN files # {}

\* JoinWith("\n", ...) of the grouped rendering of a page's blocks
ContentOf(page) == JoinWith("\n", GroupedRuns(notion[page.id]))

\* C10: after notion_pull has completed, one post file exists per entry, and
\* the file at the url of every entry of the index was rendered from that
\* entry: it holds the entry's own title and content.
C10_OnePostPerEntry ==
    pc = "built" =>
        /\ Cardinality(DOMAIN files \ {IndexPath}) = Len(pages)
        /\ \A n \in 1..Len(posts_info) :
               /\ posts_info[n].url \in DOMAIN files
               /\ files[posts_info[n].url].title = posts_info[n].title
               /\ files[posts_info[n].url].content = ContentOf(pages[n])

====
